---- MODULE Spec2Model ----
(***************************************************************************)
(* Micro Business ROI Forecast App (src/app.py).                           *)
(*                                                                         *)
(* The program is a Streamlit script: five sidebar widgets hold the        *)
(* inputs, and every change of a widget re-executes the whole script from  *)
(* the top in a fresh namespace.  One run computes the summary scalars     *)
(* (lines 31-38), renders the summary metrics (lines 41-52) and builds the *)
(* yearly projection lists and the DataFrame (lines 57-69).                *)
(*                                                                         *)
(* Two specifications:                                                     *)
(*   Spec       the application: the widgets constrain the inputs, every   *)
(*              widget change is one action that ends with the re-run.     *)
(*   SpecModel  the computation of lines 31-69 as a function of five       *)
(*              integers, applied to inputs the widgets would not produce  *)
(*              (zero and negative values).                                *)
(*                                                                         *)
(* Python integers are unbounded, so no width is modelled.  A Python       *)
(* true division a / b of two ints raises ZeroDivisionError when b = 0 and *)
(* otherwise yields the float nearest to the exact quotient, which is a    *)
(* function of the ratio alone: a float is modelled as the operands of its *)
(* division, and two floats are equal when the ratios are (SameFloat).     *)
(***************************************************************************)
EXTENDS Integers, Sequences, FiniteSets

VARIABLES
    \* sidebar inputs (lines 24-28)
    num_businesses, purchase_price, annual_cost, resale_value, resale_year,
    \* derived values (lines 31-38)
    total_years, initial_investment, total_annual_cost, total_cost,
    total_revenue, net_profit, roi, roi_per_business,
    \* what st.metric was given (lines 45-52); << >> when not rendered
    metrics,
    \* yearly projection (lines 57-69)
    years, cumulative_costs, revenue, profit, roi_over_time, df,
    \* how the run ended: "pending", "ok", or the exception that stopped it
    outcome,
    \* history variables: the outputs of the first run of the session, and
    \* whether a widget has been changed since
    first_run, reran

inputs == <<num_businesses, purchase_price, annual_cost, resale_value, resale_year>>

outputs == <<total_years, initial_investment, total_annual_cost, total_cost,
             total_revenue, net_profit, roi, roi_per_business, metrics,
             years, cumulative_costs, revenue, profit, roi_over_time, df, outcome>>

vars == <<inputs, outputs, first_run, reran>>

----------------------------------------------------------------------------
(* Widget declarations, lines 24-28.                                       *)

NumBusinessesOptions == {10, 20, 50, 100, 200}
NumBusinessesDefault == 10
PurchasePriceOptions == {99, 149, 199}
PurchasePriceDefault == 99
AnnualCostMin == 10
AnnualCostMax == 100
AnnualCostDefault == 50
ResaleValueMin == 1000
ResaleValueMax == 100000
ResaleValueDefault == 10000
ResaleValueStep == 500
ResaleYearMin == 3
ResaleYearMax == 20
ResaleYearDefault == 10

(* Bounds of the exploration.  The annual-cost slider is moved to its      *)
(* default, its maximum and the MaxSliderOffset + 1 lowest positions; the  *)
(* resale value is set to its default, its maximum and the lowest          *)
(* MaxResaleSteps + 1 steps.  The resale-year slider and both select boxes *)
(* are explored in full.                                                   *)
MaxSliderOffset == 1
MaxResaleSteps == 1
(* SpecModel applies the computation to every five integers of             *)
(* -MaxModelInput .. MaxModelInput.                                        *)
MaxModelInput == 2

AnnualCostValues ==
    {AnnualCostDefault, AnnualCostMax}
        \cup (AnnualCostMin..(AnnualCostMin + MaxSliderOffset))

ResaleValueValues ==
    {ResaleValueDefault, ResaleValueMax}
        \cup { ResaleValueMin + k * ResaleValueStep : k \in 0..MaxResaleSteps }

ResaleYearValues == ResaleYearMin..ResaleYearMax

ModelInputs == (0 - MaxModelInput)..MaxModelInput

----------------------------------------------------------------------------
(* Python arithmetic.                                                      *)

Abs(a) == IF a < 0 THEN 0 - a ELSE a

RECURSIVE GCD(_, _)
GCD(a, b) == IF b = 0 THEN a ELSE GCD(b, a % b)

ZeroDivisionError == "ZeroDivisionError"
ValueError == "ValueError"

(* A float that was never assigned: den = 0 is no value of a division.     *)
NoFloat == [num |-> 0, den |-> 0, scale |-> 0]

(* The value IEEE arithmetic without traps gives for a zero denominator.   *)
InfFloat == [num |-> 1, den |-> 0, scale |-> 1]

Raises(q) == q.scale = 0

(* a / b on ints: raises on b = 0 (scale 0 marks the raise), else the      *)
(* float of the quotient, kept as the two operands.                        *)
TrueDivInf(a, b) ==
    IF b = 0 THEN InfFloat ELSE [num |-> a, den |-> b, scale |-> 1]

TrueDiv(a, b) ==
    IF b = 0 THEN NoFloat ELSE [num |-> a, den |-> b, scale |-> 1]

(* Two divisions give the same float exactly when their quotients are the  *)
(* same rational: Lowest is the quotient in lowest terms, denominator > 0. *)
Lowest(q) ==
    IF q.den = 0 THEN q
    ELSE LET g == GCD(Abs(q.num), Abs(q.den))
             s == IF q.den < 0 THEN 0 - 1 ELSE 1
         IN  [num |-> s * (q.num \div g), den |-> s * (q.den \div g),
              scale |-> q.scale]

SameFloat(p, q) == Lowest(p) = Lowest(q)

(* q * 100 on a float.                                                     *)
Times100(q) == [q EXCEPT !.scale = q.scale * 100]

(* list(range(1, n + 1)): empty when n < 1.                                *)
Range1(n) == [i \in 1..n |-> i]

----------------------------------------------------------------------------
(* Derived values, lines 31-38.                                            *)

TotalYears(ry) == ry

InitialInvestment(nb, pp) == nb * pp

TotalAnnualCostPerBusiness(ac, ty, nb) == ac * ty

TotalAnnualCost(ac, ty, nb) == ac * ty * nb

TotalCost(ii, tac) == ii + tac

TotalRevenue(rv, nb) == rv * nb

NetProfit(tr, tc) == tr - tc

Roi(np, tc) == LET q == TrueDiv(np, tc) IN IF Raises(q) THEN q ELSE Times100(q)

(* The numerator without its inner parentheses.                            *)
RoiPerBusinessFlat(rv, pp, ac, ry) ==
    LET q == TrueDiv(rv - pp + ac * ry, pp + ac * ry)
    IN  IF Raises(q) THEN q ELSE Times100(q)

RoiPerBusiness(rv, pp, ac, ry) ==
    LET q == TrueDiv(rv - (pp + ac * ry), pp + ac * ry)
    IN  IF Raises(q) THEN q ELSE Times100(q)

(* Investment Summary, lines 45-52: the six values given to st.metric, in  *)
(* the order of the calls.                                                 *)
Metrics(ii, ac, nb, tc, tr, np, r) == <<ii, ac * nb, tc, tr, np, r>>

----------------------------------------------------------------------------
(* Yearly DataFrame simulation, lines 57-69.  A Python list is a sequence; *)
(* Python index i is position i + 1.                                       *)

YearsFromZero(ry) == [k \in 1..ry |-> k - 1]

Years(ry) == Range1(ry)

CumulativeCostsFlat(ys, ii, ac, nb) ==
    [k \in 1..Len(ys) |-> ii + (ac * nb)]

CumulativeCostsPrior(ys, ii, ac, nb) ==
    [k \in 1..Len(ys) |-> ii + ((ys[k] - 1) * ac * nb)]

CumulativeCostsMinus(ys, ii, ac, nb) ==
    [k \in 1..Len(ys) |-> ii - (ys[k] * ac * nb)]

CumulativeCosts(ys, ii, ac, nb) ==
    [k \in 1..Len(ys) |-> ii + (ys[k] * ac * nb)]

RevenueSpread(ys, ry, tr) ==
    [k \in 1..Len(ys) |-> tr \div ry]

Revenue(ys, ry, tr) ==
    [k \in 1..Len(ys) |-> IF ys[k] < ry THEN 0 ELSE tr]

Profit(ys, rev, cc) ==
    [k \in 1..Len(ys) |-> rev[k] - cc[k]]

(* One division per year, line 61; the comprehension raises at the first   *)
(* zero denominator.                                                       *)
RoiOverTime(ys, prof, cc) ==
    [k \in 1..Len(ys) |-> LET q == TrueDiv(prof[k], cc[k])
                          IN  IF Raises(q) THEN q ELSE Times100(q)]

NoFrame ==
    [built |-> FALSE, Year |-> << >>, CumulativeCost |-> << >>,
     ProjectedRevenue |-> << >>, NetProfit |-> << >>, ROI |-> << >>]

(* pd.DataFrame of a dict of lists raises ValueError unless all lists have *)
(* the same length.                                                        *)
DataFrame(ys, cc, rev, prof, rot) ==
    IF Len(cc) = Len(ys) /\ Len(rev) = Len(ys) /\ Len(prof) = Len(ys)
       /\ Len(rot) = Len(ys)
    THEN [built |-> TRUE, Year |-> ys, CumulativeCost |-> cc,
          ProjectedRevenue |-> rev, NetProfit |-> prof, ROI |-> rot]
    ELSE NoFrame

----------------------------------------------------------------------------
(* One execution of the script on the five inputs: the namespace it leaves *)
(* behind.  A name the run never bound (the run stopped before its line)   *)
(* holds 0, NoFloat, << >> or NoFrame.                                     *)

Unbound ==
    [total_years |-> 0, initial_investment |-> 0, total_annual_cost |-> 0,
     total_cost |-> 0, total_revenue |-> 0, net_profit |-> 0,
     roi |-> NoFloat, roi_per_business |-> NoFloat, metrics |-> << >>,
     years |-> << >>, cumulative_costs |-> << >>, revenue |-> << >>,
     profit |-> << >>, roi_over_time |-> << >>, df |-> NoFrame,
     outcome |-> "pending"]

Script(nb, pp, ac, rv, ry) ==
    LET ty   == TotalYears(ry)
        ii   == InitialInvestment(nb, pp)
        tac  == TotalAnnualCost(ac, ty, nb)
        tc   == TotalCost(ii, tac)
        tr   == TotalRevenue(rv, nb)
        np   == NetProfit(tr, tc)
        r    == Roi(np, tc)
        rpb  == RoiPerBusiness(rv, pp, ac, ry)
        ys   == Years(ry)
        cc   == CumulativeCosts(ys, ii, ac, nb)
        rev  == Revenue(ys, ry, tr)
        prof == Profit(ys, rev, cc)
        rot  == RoiOverTime(ys, prof, cc)
        frame == DataFrame(ys, cc, rev, prof, rot)
        line36 == [Unbound EXCEPT !.total_years = ty, !.initial_investment = ii,
                       !.total_annual_cost = tac, !.total_cost = tc,
                       !.total_revenue = tr, !.net_profit = np]
        line37 == [line36 EXCEPT !.roi = r]
        line52 == [line37 EXCEPT !.roi_per_business = rpb,
                       !.metrics = Metrics(ii, ac, nb, tc, tr, np, r)]
        line60 == [line52 EXCEPT !.years = ys, !.cumulative_costs = cc,
                       !.revenue = rev, !.profit = prof]
        line61 == [line60 EXCEPT !.roi_over_time = rot]
    IN  IF Raises(r)
          THEN [line36 EXCEPT !.outcome = ZeroDivisionError]
        ELSE IF Raises(rpb)
          THEN [line37 EXCEPT !.outcome = ZeroDivisionError]
        ELSE IF \E k \in 1..Len(rot) : Raises(rot[k])
          THEN [line60 EXCEPT !.outcome = ZeroDivisionError]
        ELSE IF ~frame.built
          THEN [line61 EXCEPT !.outcome = ValueError]
        ELSE [line61 EXCEPT !.df = frame, !.outcome = "ok"]

----------------------------------------------------------------------------
(* The re-run that ends every widget change: the script runs on the new    *)
(* widget values and its namespace replaces the previous one.              *)

(* The namespace of a run as the values of the variables.                  *)
Start(s) ==
    /\ total_years = s.total_years
    /\ initial_investment = s.initial_investment
    /\ total_annual_cost = s.total_annual_cost
    /\ total_cost = s.total_cost
    /\ total_revenue = s.total_revenue
    /\ net_profit = s.net_profit
    /\ roi = s.roi
    /\ roi_per_business = s.roi_per_business
    /\ metrics = s.metrics
    /\ years = s.years
    /\ cumulative_costs = s.cumulative_costs
    /\ revenue = s.revenue
    /\ profit = s.profit
    /\ roi_over_time = s.roi_over_time
    /\ df = s.df
    /\ outcome = s.outcome

Bind(s) ==
    /\ total_years' = s.total_years
    /\ initial_investment' = s.initial_investment
    /\ total_annual_cost' = s.total_annual_cost
    /\ total_cost' = s.total_cost
    /\ total_revenue' = s.total_revenue
    /\ net_profit' = s.net_profit
    /\ roi' = s.roi
    /\ roi_per_business' = s.roi_per_business
    /\ metrics' = s.metrics
    /\ years' = s.years
    /\ cumulative_costs' = s.cumulative_costs
    /\ revenue' = s.revenue
    /\ profit' = s.profit
    /\ roi_over_time' = s.roi_over_time
    /\ df' = s.df
    /\ outcome' = s.outcome

(* A re-run that recomputes the yearly lists only when an input other than *)
(* the number of businesses changed.                                       *)
RerunIncremental ==
    \E s \in {Script(num_businesses', purchase_price', annual_cost',
                     resale_value', resale_year')} :
        IF num_businesses' # num_businesses
        THEN Bind([s EXCEPT !.years = years,
                            !.cumulative_costs = cumulative_costs,
                            !.revenue = revenue, !.profit = profit,
                            !.roi_over_time = roi_over_time, !.df = df])
        ELSE Bind(s)

Rerun ==
    \E s \in {Script(num_businesses', purchase_price', annual_cost',
                     resale_value', resale_year')} : Bind(s)

(* Line 24: st.sidebar.selectbox over [10, 20, 50, 100, 200].              *)
SelectNumBusinesses(v) ==
    /\ v \in NumBusinessesOptions
    /\ v # num_businesses
    /\ num_businesses' = v
    /\ UNCHANGED <<purchase_price, annual_cost, resale_value, resale_year, first_run>>
    /\ reran' = TRUE
    /\ Rerun

(* Line 25: st.sidebar.selectbox over [99, 149, 199].                      *)
SelectPurchasePrice(v) ==
    /\ v \in PurchasePriceOptions
    /\ v # purchase_price
    /\ purchase_price' = v
    /\ UNCHANGED <<num_businesses, annual_cost, resale_value, resale_year, first_run>>
    /\ reran' = TRUE
    /\ Rerun

(* Line 26: st.sidebar.slider(10, 100, 50).                                *)
SlideAnnualCost(v) ==
    /\ v \in AnnualCostMin..AnnualCostMax
    /\ v # annual_cost
    /\ annual_cost' = v
    /\ UNCHANGED <<num_businesses, purchase_price, resale_value, resale_year, first_run>>
    /\ reran' = TRUE
    /\ Rerun

(* Line 27: st.sidebar.number_input(min 1000, max 100000, step 500).       *)
InputResaleValue(v) ==
    /\ v \in ResaleValueMin..ResaleValueMax
    /\ v # resale_value
    /\ resale_value' = v
    /\ UNCHANGED <<num_businesses, purchase_price, annual_cost, resale_year, first_run>>
    /\ reran' = TRUE
    /\ Rerun

(* Line 28: st.sidebar.slider(3, 20, 10).                                  *)
SlideResaleYear(v) ==
    /\ v \in ResaleYearMin..ResaleYearMax
    /\ v # resale_year
    /\ resale_year' = v
    /\ UNCHANGED <<num_businesses, purchase_price, annual_cost, resale_value, first_run>>
    /\ reran' = TRUE
    /\ Rerun

(* The session opens with every widget at its default and the script run   *)
(* once on them.                                                           *)
Init ==
    /\ num_businesses = NumBusinessesDefault
    /\ purchase_price = PurchasePriceDefault
    /\ annual_cost = AnnualCostDefault
    /\ resale_value = ResaleValueDefault
    /\ resale_year = ResaleYearDefault
    /\ Start(Script(NumBusinessesDefault, PurchasePriceDefault, AnnualCostDefault,
                    ResaleValueDefault, ResaleYearDefault))
    /\ first_run = outputs
    /\ reran = FALSE

Next ==
    \/ \E v \in NumBusinessesOptions : SelectNumBusinesses(v)
    \/ \E v \in PurchasePriceOptions : SelectPurchasePrice(v)
    \/ \E v \in AnnualCostValues : SlideAnnualCost(v)
    \/ \E v \in ResaleValueValues : InputResaleValue(v)
    \/ \E v \in ResaleYearValues : SlideResaleYear(v)

Spec == Init /\ [][Next]_vars

----------------------------------------------------------------------------
(* The computation alone: five integers are given, and the script's lines  *)
(* 31-69 run on them once.                                                 *)

InitModel ==
    /\ num_businesses \in ModelInputs
    /\ purchase_price \in ModelInputs
    /\ annual_cost \in ModelInputs
    /\ resale_value \in ModelInputs
    /\ resale_year \in ModelInputs
    /\ Start(Unbound)
    /\ first_run = << >>
    /\ reran = FALSE

Invoke ==
    /\ outcome = "pending"
    /\ UNCHANGED <<inputs, first_run, reran>>
    /\ Rerun

NextModel == Invoke

SpecModel == InitModel /\ [][NextModel]_vars

----------------------------------------------------------------------------
(* Properties.                                                             *)

Finished == outcome # "pending"

WidgetRanges ==
    /\ num_businesses \in NumBusinessesOptions
    /\ purchase_price \in PurchasePriceOptions
    /\ annual_cost \in AnnualCostMin..AnnualCostMax
    /\ resale_value \in ResaleValueMin..ResaleValueMax
    /\ (resale_value - ResaleValueMin) % ResaleValueStep = 0
    /\ resale_year \in ResaleYearMin..ResaleYearMax

C2_ZeroTotalCostIsError ==
    (Finished /\ total_cost = 0)
        => /\ outcome = ZeroDivisionError
           /\ roi = NoFloat
           /\ metrics = << >>
           /\ ~df.built

C2_Witness ==
    /\ Finished
    /\ total_cost = 0
    /\ num_businesses > 0 /\ purchase_price > 0 /\ resale_value > 0
    /\ outcome = ZeroDivisionError

(* C3: for every input the widgets allow, every run completes and every    *)
(* denominator it divides by is strictly positive: total_cost, the         *)
(* per-business cost purchase_price + annual_cost * resale_year, and the   *)
(* cumulative cost of every year 1..resale_year.                           *)
C3_DenominatorsPositive ==
    /\ WidgetRanges
    /\ outcome = "ok"
    /\ total_cost > 0 /\ roi.den = total_cost
    /\ purchase_price + annual_cost * resale_year > 0
    /\ roi_per_business.den = purchase_price + annual_cost * resale_year
    /\ Len(cumulative_costs) = resale_year
    /\ Len(roi_over_time) = resale_year
    /\ \A i \in 1..Len(cumulative_costs) :
          /\ cumulative_costs[i] > 0
          /\ i <= Len(roi_over_time) => roi_over_time[i].den = cumulative_costs[i]

C3_Witness ==
    /\ num_businesses = 10 /\ purchase_price = 99 /\ annual_cost = 10
    /\ resale_year = 3 /\ resale_value = 1000
    /\ outcome = "ok"
    /\ total_cost = 1290
    /\ cumulative_costs = <<1090, 1190, 1290>>

(* C4: the table has exactly resale_year rows, the Year of row k is k, and *)
(* all five columns have that length.                                      *)
C4_TableShape ==
    /\ df.built
    /\ df.Year = years
    /\ Len(df.Year) = resale_year
    /\ \A k \in 1..Len(df.Year) : df.Year[k] = k
    /\ Len(df.CumulativeCost) = resale_year
    /\ Len(df.ProjectedRevenue) = resale_year
    /\ Len(df.NetProfit) = resale_year
    /\ Len(df.ROI) = resale_year

C4_Witness ==
    /\ resale_year = 20
    /\ df.built
    /\ Len(df.Year) = 20 /\ df.Year[1] = 1 /\ df.Year[20] = 20
    /\ Len(df.ROI) = 20

(* C5: the revenue of every row but the last is 0, and the revenue of the  *)
(* last row (year = resale_year) is resale_value * num_businesses.         *)
C5_RevenueOnlyFinalYear ==
    /\ df.ProjectedRevenue = revenue
    /\ Len(revenue) = resale_year
    /\ total_revenue = resale_value * num_businesses
    /\ \A k \in 1..Len(revenue) :
          revenue[k] = IF k = resale_year THEN total_revenue ELSE 0

C5_Witness ==
    /\ num_businesses = 10 /\ resale_year = 3 /\ resale_value = 10000
    /\ revenue = <<0, 0, 100000>>

(* C6: total_cost = initial_investment + annual_cost * resale_year *       *)
(* num_businesses with initial_investment = num_businesses *               *)
(* purchase_price, and net_profit = total_revenue - total_cost; inputs     *)
(* 10, 99, 50, 10000, 10 give 990, 5000, 5990, 100000 and 94010.           *)
C6_SummaryTotals ==
    /\ initial_investment = num_businesses * purchase_price
    /\ total_cost = initial_investment + annual_cost * resale_year * num_businesses
    /\ net_profit = total_revenue - total_cost
    /\ metrics[1] = initial_investment /\ metrics[3] = total_cost
    /\ metrics[5] = net_profit
    /\ inputs = <<10, 99, 50, 10000, 10>>
          => /\ initial_investment = 990
             /\ total_annual_cost = 5000
             /\ total_cost = 5990
             /\ total_revenue = 100000
             /\ net_profit = 94010

C6_Witness ==
    /\ inputs = <<200, 199, 100, 1000, 20>>
    /\ initial_investment = 39800
    /\ total_cost = 439800
    /\ net_profit = 0 - 239800

(* C7: whenever annual_cost * num_businesses > 0, each row's cumulative    *)
(* cost exceeds the previous row's by exactly annual_cost *                *)
(* num_businesses.                                                         *)
C7_CumulativeCostIncreasing ==
    annual_cost * num_businesses > 0
        => /\ Len(cumulative_costs) = resale_year
           /\ \A i \in 1..(Len(cumulative_costs) - 1) :
                 /\ cumulative_costs[i + 1] > cumulative_costs[i]
                 /\ cumulative_costs[i + 1] - cumulative_costs[i]
                       = annual_cost * num_businesses

C7_Witness ==
    /\ num_businesses = 200 /\ annual_cost = 11 /\ resale_year = 4
    /\ purchase_price = 149
    /\ cumulative_costs = <<32000, 34200, 36400, 38600>>

(* C9: the last row of the table agrees with the summary: its cumulative   *)
(* cost is total_cost, its net profit is net_profit, and its ROI is the    *)
(* same division as the summary roi.                                       *)
C9_LastRowAgreesWithSummary ==
    /\ Len(cumulative_costs) = resale_year
    /\ Len(profit) = resale_year
    /\ Len(roi_over_time) = resale_year
    /\ cumulative_costs[Len(cumulative_costs)] = total_cost
    /\ profit[Len(profit)] = net_profit
    /\ roi_over_time[Len(roi_over_time)] = roi
    /\ roi.num = net_profit /\ roi.den = total_cost

C9_Witness ==
    /\ inputs = <<20, 149, 11, 1500, 5>>
    /\ cumulative_costs[5] = 4080 /\ total_cost = 4080
    /\ profit[5] = 25920 /\ net_profit = 25920
    /\ roi_over_time[5] = roi

C10_SameRatio ==
    LET c == purchase_price + annual_cost * resale_year
    IN  /\ net_profit = num_businesses * (resale_value - c)
        /\ total_cost = num_businesses * c
        /\ roi_per_business.num = resale_value - c
        /\ roi_per_business.den = c
        /\ SameFloat(roi, roi_per_business)

C10_CountChangeKeepsRoi ==
    num_businesses' # num_businesses
        => /\ SameFloat(roi', roi)
           /\ SameFloat(roi_per_business', roi_per_business)

C10_RoiIndependentOfCount ==
    [](C10_SameRatio) /\ [][C10_CountChangeKeepsRoi]_vars

C10_Witness ==
    /\ reran
    /\ inputs = <<200, 149, 11, 1500, 5>>
    /\ roi = [num |-> 259200, den |-> 40800, scale |-> 100]
    /\ roi_per_business = [num |-> 1296, den |-> 204, scale |-> 100]
    /\ SameFloat(roi, roi_per_business)

====
